---- MODULE Spec2Model ----
(***************************************************************************)
(* A model of kui's terminal-cell style resolver                           *)
(* (plugins/plugin-bash-like/src/pty/xterm-helpers/index.ts):              *)
(*   getColor(colorMode, color)      -> CSS colour string or ""            *)
(*   prepareCellForDomRenderer(cell) -> {classList, style, textContent}    *)
(*                                                                         *)
(* JavaScript strings are TLA+ strings (\o concatenates, Len and SubSeq    *)
(* read them).  JavaScript numbers are integers; every integer of the      *)
(* model lies in the 32-bit two's-complement range, on which the ToInt32   *)
(* conversion that precedes >> and & changes nothing.                      *)
(***************************************************************************)
EXTENDS Integers, Sequences, FiniteSets, TLC

VARIABLES
  gcMode,     \* getColor: the colorMode argument
  gcColor,    \* getColor: the color argument
  gcDone,     \* getColor: TRUE once the call has returned
  gcRet,      \* getColor: the value returned ("" before the call)
  cell,       \* prepareCellForDomRenderer: what the cell's accessors return
  rendered,   \* prepareCellForDomRenderer: TRUE once the call has returned
  render,     \* prepareCellForDomRenderer: the object returned
  \* prepareCellForDomRenderer run accessor by accessor, one activation per call
  args,       \* the cell each call is given
  palette,    \* the module's colorPalette array
  callsLeft,  \* how many calls the repaint loop still starts
  st,         \* per call: "idle", "running", "returned" or "thrown"
  pc,         \* per call: the index of the accessor it invokes next
  classLists, \* per call: its local classList
  styleLists, \* per call: its local styles
  modeArg,    \* per call: the colour mode read, while the colour value is read
  log,        \* per call: the accessors invoked so far
  ret,        \* per call: the object returned
  err,        \* per call: the value thrown out of the call
  \* the Tauri bridge
  windowDefined,  \* typeof window !== 'undefined'
  tauriGlobal,    \* window.__TAURI__ !== undefined
  electronGlobal, \* window.electron !== undefined
  loaded,         \* the bridge module has been evaluated
  isTauri,        \* the module's const isTauri
  isElectron,     \* the module's const isElectron
  renderers,      \* the TauriIpcRenderer objects created, each its listeners map
  ipcCalled,      \* getIpcRenderer has been called
  ipcRet,         \* what the last getIpcRenderer call returned
  ipcErr,         \* the message of the Error it threw, "" when it returned
  \* the runtime queries
  asked,          \* the exported functions called so far
  rtTauri,        \* what the last isTauriRuntime() returned
  rtElectron,     \* what the last isElectronRuntime() returned
  rtName,         \* what the last getRuntimeName() returned
  first,          \* what the first call of each function answered
  \* the calls made on TauriIpcRenderer objects
  scope,          \* the channels, listeners and renderers the calls draw from
  behaviour,      \* per listener: what its body does when it is invoked
  opsLeft,        \* how many more calls the page makes
  lastOp,         \* the last call: the method, its renderer and its arguments
  trace,          \* the listener invocations of the last emit, in order
  emitThrew,      \* the last emit threw
  wrappers,       \* the wrappedListener closures the calls of once created
  onCalls,        \* per renderer, channel, listener: calls of on since the last removeListener
  \* send and invoke
  invokes,        \* the window.__TAURI__.core.invoke calls the last call issued
  promise         \* the promise the last send or invoke returned, once settled

colorVars == <<gcMode, gcColor, gcDone, gcRet, cell, rendered, render>>

callVars == <<args, palette, callsLeft, st, pc, classLists, styleLists, modeArg, log, ret, err>>

ipcVars == <<windowDefined, tauriGlobal, electronGlobal, loaded, isTauri, isElectron,
             renderers, ipcCalled, ipcRet, ipcErr>>

rtVars == <<asked, rtTauri, rtElectron, rtName, first>>

lsVars == <<scope, behaviour, opsLeft, lastOp, trace, emitThrew, wrappers, onCalls>>

ivVars == <<invokes, promise>>

bridgeVars == <<rtVars, lsVars, ivVars>>

vars == <<colorVars, callVars, ipcVars, bridgeVars>>

(***************************************************************************)
(* Bounds of the model.                                                    *)
(***************************************************************************)
\* the TauriIpcRenderer objects getIpcRenderer may create
MaxRenderers == 2
\* the calls of on, once, removeListener and emit the page makes
MaxOps == 3
\* the calls of prepareCellForDomRenderer that may be in progress together
NumCalls == 3
\* palette values range over 0..MaxColorIndex (the documented ones are 0..255)
MaxColorIndex == 300
\* colour modes range over -1..MaxMode, and the three xterm.js mode words
MaxMode == 4
\* bits 24..31 of an RGB value range over -MaxHigh..MaxHigh, and -128 and 127
MaxHigh == 1

(***************************************************************************)
(* enum ColorMode                                                          *)
(***************************************************************************)
DEFAULT == 0
PALETTE == 1
RGB == 2

\* The value of an array read past its ends: JavaScript's undefined, which
\* is not a string; no string the resolver builds equals this marker.
Undefined == "<undefined>"

\* const colorPalette = [...]
colorPalette_Mutant ==
  << "#000000", "#cd0000", "#00cd00", "#cdcd00", "#0000cd", "#cd00cd", "#00cdcd", "#e5e5e5",
     "#7f7f7f", "#ff0000", "#00ff00", "#ffff00", "#5c5cff", "#ff00ff", "#00ffff", "#ffffff" >>

colorPalette ==
  << "#000000", "#cd0000", "#00cd00", "#cdcd00", "#0000ee", "#cd00cd", "#00cdcd", "#e5e5e5",
     "#7f7f7f", "#ff0000", "#00ff00", "#ffff00", "#5c5cff", "#ff00ff", "#00ffff", "#ffffff" >>

\* colorPalette[color]: arrays are indexed from 0, tuples from 1
paletteEntry(color) ==
  IF color + 1 \in DOMAIN colorPalette THEN colorPalette[color + 1] ELSE Undefined

(***************************************************************************)
(* Number.prototype.toString(16) on an integer.                            *)
(***************************************************************************)
hexDigit(d) == SubSeq("0123456789abcdef", d + 1, d + 1)

RECURSIVE toString16(_)
toString16(x) ==
  IF x < 0 THEN "-" \o toString16(-x)
  ELSE IF x < 16 THEN hexDigit(x)
  ELSE toString16(x \div 16) \o hexDigit(x % 16)

\* x => { const hex = x.toString(16); return hex.length === 1 ? '0' + hex : hex }
hexOf_Mutant(x) == toString16(x)

hexOf(x) ==
  LET hex == toString16(x)
  IN  IF Len(hex) = 1 THEN "0" \o hex ELSE hex

\* '#' + [r, g, b].map(...).join('')
rgbToHex(r, g, b) == "#" \o hexOf(r) \o hexOf(g) \o hexOf(b)

(***************************************************************************)
(* The bit operators on 32-bit two's-complement integers.                  *)
(***************************************************************************)
\* x >> n: the sign-propagating shift
ShiftRight(x, n) == x \div (2 ^ n)

\* x & y, bit by bit from the lowest; -1 is all ones and 0 all zeros
RECURSIVE BitAnd(_, _)
BitAnd(x, y) ==
  IF x = 0 \/ y = 0 THEN 0
  ELSE IF x = -1 THEN y
  ELSE IF y = -1 THEN x
  ELSE (x % 2) * (y % 2) + 2 * BitAnd(x \div 2, y \div 2)

(***************************************************************************)
(* getColor                                                                *)
(***************************************************************************)
\* r ? r * 40 + 55 : 0
cubeChannel_Mutant(k) == k * 40 + 55

cubeChannel(k) == IF k # 0 THEN k * 40 + 55 ELSE 0

\* the colour cube with the blue index taken modulo 5
cubeColor_BlueMutant(color) ==
  LET c == color - 16
      r == c \div 36
      g == (c % 36) \div 6
      b == c % 5
  IN  rgbToHex(cubeChannel(r), cubeChannel(g), cubeChannel(b))

\* the 216 colour cube
cubeColor(color) ==
  LET c == color - 16
      r == c \div 36
      g == (c % 36) \div 6
      b == c % 6
  IN  rgbToHex(cubeChannel(r), cubeChannel(g), cubeChannel(b))

\* the grayscale branch
grayColor_Mutant(color) ==
  LET gray == (color - 232) * 8 + 10
  IN  rgbToHex(gray, gray, gray)

grayColor(color) ==
  LET gray == (color - 232) * 10 + 8
  IN  rgbToHex(gray, gray, gray)

\* the RGB branch: the three channels unpacked from the value
rgbChannels_SwappedMutant(color) ==
  << BitAnd(color, 255),
     BitAnd(ShiftRight(color, 8), 255),
     BitAnd(ShiftRight(color, 16), 255) >>

rgbChannels_NoMaskMutant(color) ==
  << ShiftRight(color, 16),
     BitAnd(ShiftRight(color, 8), 255),
     BitAnd(color, 255) >>

rgbChannels(color) ==
  << BitAnd(ShiftRight(color, 16), 255),
     BitAnd(ShiftRight(color, 8), 255),
     BitAnd(color, 255) >>

rgbColor(color) ==
  LET ch == rgbChannels(color)
  IN  rgbToHex(ch[1], ch[2], ch[3])

\* the PALETTE branch with the first test off by one
paletteColor_Mutant(color) ==
  IF color <= 16 THEN paletteEntry(color)
  ELSE IF color < 232 THEN cubeColor(color)
  ELSE grayColor(color)

\* the PALETTE branch
paletteColor(color) ==
  IF color < 16 THEN paletteEntry(color)
  ELSE IF color < 232 THEN cubeColor(color)
  ELSE grayColor(color)

getColor_DefaultMutant(colorMode, color) ==
  IF colorMode = PALETTE \/ colorMode = DEFAULT THEN paletteColor(color)
  ELSE IF colorMode = RGB THEN rgbColor(color)
  ELSE ""

getColor_ElseMutant(colorMode, color) ==
  IF colorMode = DEFAULT THEN ""
  ELSE IF colorMode = PALETTE THEN paletteColor(color)
  ELSE rgbColor(color)

getColor_RangeMutant(colorMode, color) ==
  IF colorMode = DEFAULT THEN ""
  ELSE IF colorMode = PALETTE THEN (IF color < 256 THEN paletteColor(color) ELSE "")
  ELSE IF colorMode = RGB THEN rgbColor(color)
  ELSE ""

getColor(colorMode, color) ==
  IF colorMode = DEFAULT THEN ""
  ELSE IF colorMode = PALETTE THEN paletteColor(color)
  ELSE IF colorMode = RGB THEN rgbColor(color)
  ELSE ""

(***************************************************************************)
(* prepareCellForDomRenderer                                               *)
(***************************************************************************)
\* Array.prototype.join
RECURSIVE join(_, _)
join(list, sep) ==
  IF list = <<>> THEN ""
  ELSE IF Len(list) = 1 THEN list[1]
  ELSE list[1] \o sep \o join(Tail(list), sep)

\* if (test) { list.push(item) }
pushIf(list, test, item) == IF test THEN Append(list, item) ELSE list

\* the class tokens pushed by the seven attribute checks, in their order
classTokens_Mutant(c) ==
  LET l1 == pushIf(<<>>, c.isBold, "xterm-bold")
      l2 == pushIf(l1, c.isDim, "xterm-dim")
      l3 == pushIf(l2, c.isItalic, "xterm-italic")
      l4 == pushIf(l3, c.isUnderline, "xterm-underline")
      l5 == pushIf(l4, c.isStrikethrough, "xterm-strikethrough")
      l6 == pushIf(l5, c.isBlink, "xterm-blink")
  IN  pushIf(l6, c.isInvisible, "xterm-invisible")

classTokens(c) ==
  LET l1 == pushIf(<<>>, c.isBold, "xterm-bold")
      l2 == pushIf(l1, c.isItalic, "xterm-italic")
      l3 == pushIf(l2, c.isDim, "xterm-dim")
      l4 == pushIf(l3, c.isUnderline, "xterm-underline")
      l5 == pushIf(l4, c.isStrikethrough, "xterm-strikethrough")
      l6 == pushIf(l5, c.isBlink, "xterm-blink")
  IN  pushIf(l6, c.isInvisible, "xterm-invisible")

\* the background declaration pushed before the foreground one
styleDecls_OrderMutant(c) ==
  LET bgColor == getColor(c.bgColorMode, c.bgColor)
      s1 == pushIf(<<>>, bgColor # "", "background-color: " \o bgColor)
      fgColor == getColor(c.fgColorMode, c.fgColor)
  IN  pushIf(s1, fgColor # "", "color: " \o fgColor)

\* an invisible cell given no foreground colour
styleDecls_InvisibleMutant(c) ==
  LET fgColor == getColor(c.fgColorMode, c.fgColor)
      s1 == pushIf(<<>>, fgColor # "" /\ ~c.isInvisible, "color: " \o fgColor)
      bgColor == getColor(c.bgColorMode, c.bgColor)
  IN  pushIf(s1, bgColor # "", "background-color: " \o bgColor)

\* the declarations pushed for the foreground and the background colour;
\* a string is falsy exactly when it is empty
styleDecls(c) ==
  LET fgColor == getColor(c.fgColorMode, c.fgColor)
      s1 == pushIf(<<>>, fgColor # "", "color: " \o fgColor)
      bgColor == getColor(c.bgColorMode, c.bgColor)
  IN  pushIf(s1, bgColor # "", "background-color: " \o bgColor)

\* an empty cell rendered as a space
prepareCellForDomRenderer_Mutant(c) ==
  [ classList   |-> join(classTokens(c), " "),
    style       |-> join(styleDecls(c), "; "),
    textContent |-> IF c.chars = "" THEN " " ELSE c.chars ]

prepareCellForDomRenderer(c) ==
  [ classList   |-> join(classTokens(c), " "),
    style       |-> join(styleDecls(c), "; "),
    textContent |-> c.chars ]

(***************************************************************************)
(* The inputs.                                                             *)
(***************************************************************************)
\* the modes of the enum, the integers around them, and the mode words
\* (P16, P256, RGB) that xterm.js keeps in bits 24..25 of a colour
Modes == (-1 .. MaxMode) \cup {16777216, 33554432, 50331648}

PaletteValues == 0 .. MaxColorIndex

ChannelSamples == {0, 1, 9, 10, 15, 16, 127, 128, 254, 255}

HighSamples == (-MaxHigh .. MaxHigh) \cup {-128, 127}

\* packed values: bits 24..31 (signed), red, green, blue
RGBValues ==
  { h * 16777216 + r * 65536 + g * 256 + b :
      h \in HighSamples, r \in ChannelSamples, g \in ChannelSamples, b \in ChannelSamples }

\* a palette index is small; the other modes take any value
ColorValues(mode) ==
  IF mode = PALETTE THEN PaletteValues ELSE PaletteValues \cup RGBValues

\* (mode, value) pairs a cell reports
CellColors ==
  { <<DEFAULT, 0>>, <<DEFAULT, -1>>, <<DEFAULT, 200>>,
    <<PALETTE, 1>>, <<PALETTE, 16>>, <<PALETTE, 231>>, <<PALETTE, 255>>,
    <<PALETTE, 256>>, <<PALETTE, 257>>,
    <<RGB, 0>>, <<RGB, 16744448>>, <<3, 5>> }

CharSamples == {"", "A", " <b>&amp; \\ "}

Cells ==
  { [ isBold |-> a[1], isItalic |-> a[2], isDim |-> a[3], isUnderline |-> a[4],
      isStrikethrough |-> a[5], isBlink |-> a[6], isInvisible |-> a[7],
      fgColorMode |-> fg[1], fgColor |-> fg[2],
      bgColorMode |-> bg[1], bgColor |-> bg[2],
      chars |-> ch ] :
      a \in [1..7 -> BOOLEAN], fg \in CellColors, bg \in CellColors, ch \in CharSamples }

\* a blank cell: no attribute, default colours, no character
BlankCell ==
  [ isBold |-> FALSE, isItalic |-> FALSE, isDim |-> FALSE, isUnderline |-> FALSE,
    isStrikethrough |-> FALSE, isBlink |-> FALSE, isInvisible |-> FALSE,
    fgColorMode |-> DEFAULT, fgColor |-> 0, bgColorMode |-> DEFAULT, bgColor |-> 0,
    chars |-> "" ]

NoRender == [classList |-> "", style |-> "", textContent |-> ""]

(***************************************************************************)
(* prepareCellForDomRenderer accessor by accessor.  A cell is known only   *)
(* through its twelve accessors; an accessor returns or throws.            *)
(***************************************************************************)
Inv == 1 .. NumCalls

\* the accessors in the order the function body evaluates them
Accessors ==
  << "isBold", "isItalic", "isDim", "isUnderline", "isStrikethrough", "isBlink",
     "isInvisible", "getFgColorMode", "getFgColor", "getBgColorMode", "getBgColor",
     "getChars" >>

\* the class token pushed after each of the first seven accessors
Tokens ==
  << "xterm-bold", "xterm-italic", "xterm-dim", "xterm-underline",
     "xterm-strikethrough", "xterm-blink", "xterm-invisible" >>

\* what accessor k of cell c returns
AccessorResult(c, k) ==
  CASE k = 1 -> c.isBold
    [] k = 2 -> c.isItalic
    [] k = 3 -> c.isDim
    [] k = 4 -> c.isUnderline
    [] k = 5 -> c.isStrikethrough
    [] k = 6 -> c.isBlink
    [] k = 7 -> c.isInvisible
    [] k = 8 -> c.fgColorMode
    [] k = 9 -> c.fgColor
    [] k = 10 -> c.bgColorMode
    [] k = 11 -> c.bgColor
    [] k = 12 -> c.chars

\* getColor, its palette read made from the array as it is now
getColorReading(table, colorMode, color) ==
  IF colorMode = PALETTE /\ color < 16
    THEN IF color + 1 \in DOMAIN table THEN table[color + 1] ELSE Undefined
    ELSE getColor(colorMode, color)

\* a cell whose accessors all return (throwsAt = 0), or whose accessor
\* number throwsAt throws the value failure
WithThrow(c, k, e) ==
  [ isBold |-> c.isBold, isItalic |-> c.isItalic, isDim |-> c.isDim,
    isUnderline |-> c.isUnderline, isStrikethrough |-> c.isStrikethrough,
    isBlink |-> c.isBlink, isInvisible |-> c.isInvisible,
    fgColorMode |-> c.fgColorMode, fgColor |-> c.fgColor,
    bgColorMode |-> c.bgColorMode, bgColor |-> c.bgColor, chars |-> c.chars,
    throwsAt |-> k, failure |-> e ]

CellA ==
  [ isBold |-> TRUE, isItalic |-> FALSE, isDim |-> TRUE, isUnderline |-> FALSE,
    isStrikethrough |-> FALSE, isBlink |-> FALSE, isInvisible |-> TRUE,
    fgColorMode |-> PALETTE, fgColor |-> 1, bgColorMode |-> RGB, bgColor |-> 16744448,
    chars |-> "A" ]

CellB ==
  [ isBold |-> FALSE, isItalic |-> TRUE, isDim |-> FALSE, isUnderline |-> TRUE,
    isStrikethrough |-> TRUE, isBlink |-> TRUE, isInvisible |-> FALSE,
    fgColorMode |-> DEFAULT, fgColor |-> 200, bgColorMode |-> PALETTE, bgColor |-> 257,
    chars |-> "" ]

CellC ==
  [ isBold |-> FALSE, isItalic |-> FALSE, isDim |-> FALSE, isUnderline |-> FALSE,
    isStrikethrough |-> FALSE, isBlink |-> FALSE, isInvisible |-> FALSE,
    fgColorMode |-> 3, fgColor |-> 5, bgColorMode |-> DEFAULT, bgColor |-> -1,
    chars |-> " <b>&amp; \\ " ]

\* the cells of interleaved calls: the calls alternate between two cells, so
\* that some calls are given the same cell and some different ones
InterleavedArgs == [i \in Inv |-> WithThrow(IF i % 2 = 1 THEN CellA ELSE CellB, 0, "")]

Failures == {"TypeError: disposed", "RangeError: out of bounds"}

\* the cells of a single call: every accessor may be the one that throws
ThrowingCells ==
  { WithThrow(c, 0, "") : c \in {CellA, CellB, CellC} }
  \cup { WithThrow(c, k, e) : c \in {CellA, CellB, CellC}, k \in 1..12, e \in Failures }

NoError == ""

(***************************************************************************)
(* The Tauri bridge: runtime detection, getIpcRenderer, and the listeners  *)
(* map of a TauriIpcRenderer.                                              *)
(***************************************************************************)
Channels == {"/exec/invoke", "synchronous-message"}

Listeners == {"l1", "l2"}

\* what getIpcRenderer returns: nothing, a new TauriIpcRenderer (the index
\* of its listeners map in renderers), or the ipcRenderer of 'electron'
NoRenderer == [kind |-> "none", id |-> 0, methods |-> {}]

TauriMethods == {"send", "invoke", "on", "once", "removeListener", "emit"}

\* the IpcRenderer interface, the declared type of what is returned
IpcRendererMethods == {"send", "invoke", "on", "once", "removeListener"}

TauriRenderer(n) == [kind |-> "TauriIpcRenderer", id |-> n, methods |-> TauriMethods]

ElectronRenderer == [kind |-> "electron.ipcRenderer", id |-> 0, methods |-> IpcRendererMethods]

NeitherMessage == "Neither Tauri nor Electron runtime detected"

\* private listeners: Map<string, Set<Function>> = new Map(); a Set keeps
\* its members in insertion order
NewListeners == [ch \in Channels |-> [has |-> FALSE, fns |-> <<>>]]

\* an array push in place of Set.prototype.add
SetAdd_Mutant(fns, l) == Append(fns, l)

\* Set.prototype.add
SetAdd(fns, l) == IF \E k \in 1..Len(fns) : fns[k] = l THEN fns ELSE Append(fns, l)

\* Set.prototype.delete
SetDelete(fns, l) == SelectSeq(fns, LAMBDA x : x # l)

\* a function value: the listener l of the page (wrap = 0), or the n-th
\* wrappedListener closure, which once(channel, l) created (wrap = n)
Fn(l) == [fn |-> l, wrap |-> 0]

Wrapped(l, n) == [fn |-> l, wrap |-> n]

\* the event object emit passes to a listener: {}
EmptyEvent == "{}"

\* on(channel, listener) registering the listener on every channel
on_AllChannelsMutant(reg, ch, f) ==
  [c \in DOMAIN reg |-> [has |-> TRUE, fns |-> SetAdd(reg[c].fns, f)]]

\* on(channel, listener), on the listeners map of a renderer
on(reg, ch, f) == [reg EXCEPT ![ch] = [has |-> TRUE, fns |-> SetAdd(@.fns, f)]]

\* removeListener(channel, listener), on the listeners map of a renderer
removeListener(reg, ch, f) ==
  [reg EXCEPT ![ch] = IF @.has THEN [has |-> TRUE, fns |-> SetDelete(@.fns, f)] ELSE @]

\* emit without the try/catch around the listener call
catchInEmit_Mutant(res) == res

\* try { listener({}, ...args) } catch (error) { console.error(...) }
catchInEmit(res) == [res EXCEPT !.threw = FALSE]

RECURSIVE emit(_, _, _, _, _)
RECURSIVE forEach(_, _, _, _, _, _, _)
RECURSIVE call(_, _, _, _, _, _, _)

\* the body of the page's listener l, invoked with (event, ...args) by an
\* emit of nesting depth `depth`: it returns, it throws, or it calls
\* emit(ch, ...args) itself unless it is running inside such a call already
listenerBody(beh, reg, ch, l, rest, depth) ==
  CASE beh[l] = "returns" -> [reg |-> reg, calls |-> <<>>, threw |-> FALSE]
    [] beh[l] = "throws"  -> [reg |-> reg, calls |-> <<>>, threw |-> TRUE]
    [] beh[l] = "emits"   -> IF depth = 0 THEN emit(beh, reg, ch, rest, depth + 1)
                             ELSE [reg |-> reg, calls |-> <<>>, threw |-> FALSE]

\* the function value f called with (event, ...args): the page's listener
\* runs its body; a wrappedListener runs listener(event, ...args) and then
\* this.removeListener(channel, wrappedListener), which a throw skips
call(beh, reg, ch, f, event, rest, depth) ==
  LET inv  == [fn |-> f.fn, wrap |-> f.wrap, event |-> event, args |-> rest, depth |-> depth]
      body == listenerBody(beh, reg, ch, f.fn, rest, depth)
  IN  [reg   |-> IF f.wrap = 0 \/ body.threw THEN body.reg
                 ELSE removeListener(body.reg, ch, f),
       calls |-> <<inv>> \o body.calls,
       threw |-> body.threw]

\* channelListeners.forEach: the members of the Set in insertion order,
\* each once, those deleted before their turn skipped
forEach(beh, reg, ch, rest, depth, visited, acc) ==
  LET fns  == reg[ch].fns
      todo == {k \in 1 .. Len(fns) : fns[k] \notin visited}
  IN  IF todo = {} THEN [reg |-> reg, calls |-> acc, threw |-> FALSE]
      ELSE LET k   == CHOOSE i \in todo : \A j \in todo : i <= j
               res == catchInEmit(call(beh, reg, ch, fns[k], EmptyEvent, rest, depth))
           IN  IF res.threw
                 THEN [reg |-> res.reg, calls |-> acc \o res.calls, threw |-> TRUE]
                 ELSE forEach(beh, res.reg, ch, rest, depth, visited \cup {fns[k]},
                              acc \o res.calls)

\* emit(channel, ...args), on the listeners map of a renderer: the map
\* afterwards, the invocations made and whether the call threw
emit(beh, reg, ch, rest, depth) ==
  IF reg[ch].has THEN forEach(beh, reg, ch, rest, depth, {}, <<>>)
  ELSE [reg |-> reg, calls |-> <<>>, threw |-> FALSE]

\* const isTauri = typeof window !== 'undefined' && window.__TAURI__ !== undefined
detectTauri(w, t) == w /\ t

\* const isElectron = typeof window !== 'undefined' && window.electron !== undefined
detectElectron(w, e) == w /\ e

\* getIpcRenderer with Electron tested first
getIpcRenderer_Mutant(t, e, n) ==
  IF e THEN [ret |-> ElectronRenderer, err |-> ""]
  ELSE IF t THEN [ret |-> TauriRenderer(n), err |-> ""]
  ELSE [ret |-> NoRenderer, err |-> NeitherMessage]

\* getIpcRenderer: the value returned and the message of the Error thrown,
\* from the two detection constants; n numbers the renderer it would create
getIpcRenderer(t, e, n) ==
  IF t THEN [ret |-> TauriRenderer(n), err |-> ""]
  ELSE IF e THEN [ret |-> ElectronRenderer, err |-> ""]
  ELSE [ret |-> NoRenderer, err |-> NeitherMessage]

\* JavaScript values passed to send and invoke: a string s, a number n, an
\* array of strings items, an object {x, y, width, height} of numbers dims,
\* an object that refers to itself ("cyclic"), null and undefined
Val(t) == [t |-> t, s |-> "", n |-> 0, items |-> <<>>, dims |-> <<>>]

Str(x) == [Val("string") EXCEPT !.s = x]

Num(x) == [Val("number") EXCEPT !.n = x]

Arr(xs) == [Val("array") EXCEPT !.items = xs]

Rect(x, y, w, h) == [Val("object") EXCEPT !.dims = <<x, y, w, h>>]

JsUndefined == Val("undefined")

JsNull == Val("null")

Cyclic == Val("cyclic")

\* Number.prototype.toString() of an integer
RECURSIVE Decimal(_)
Decimal(n) ==
  IF n < 0 THEN "-" \o Decimal(-n)
  ELSE IF n < 10 THEN SubSeq("0123456789", n + 1, n + 1)
  ELSE Decimal(n \div 10) \o SubSeq("0123456789", (n % 10) + 1, (n % 10) + 1)

\* a string between double quotes (the samples need no escape)
Quote(x) == "\"" \o x \o "\""

\* JSON.stringify(v): the value returned, or that it threw a TypeError
JSONstringify(v) ==
  CASE v.t = "string"    -> [threw |-> FALSE, value |-> Str(Quote(v.s))]
    [] v.t = "number"    -> [threw |-> FALSE, value |-> Str(Decimal(v.n))]
    [] v.t = "array"     ->
         [threw |-> FALSE,
          value |-> Str("[" \o join([k \in 1 .. Len(v.items) |-> Quote(v.items[k])], ",")
                        \o "]")]
    [] v.t = "object"    ->
         [threw |-> FALSE,
          value |-> Str("{\"x\":" \o Decimal(v.dims[1]) \o ",\"y\":" \o Decimal(v.dims[2])
                        \o ",\"width\":" \o Decimal(v.dims[3])
                        \o ",\"height\":" \o Decimal(v.dims[4]) \o "}")]
    [] v.t = "null"      -> [threw |-> FALSE, value |-> Str("null")]
    [] v.t = "undefined" -> [threw |-> FALSE, value |-> JsUndefined]
    [] v.t = "cyclic"    -> [threw |-> TRUE, value |-> JsUndefined]

\* args[i] of a rest parameter
Arg(xs, i) == IF i <= Len(xs) THEN xs[i] ELSE JsUndefined

\* the object literal passed to core.invoke: its keys and their values
Payload(keys, m, x, y, w, h) ==
  [keys |-> keys, message |-> m, x |-> x, y |-> y, width |-> w, height |-> h]

MessagePayload(m) ==
  Payload({"message"}, m, JsUndefined, JsUndefined, JsUndefined, JsUndefined)

\* rect.x, rect.y, rect.width, rect.height of a value that has properties
Prop(v, k) == IF v.t = "object" THEN Num(v.dims[k]) ELSE JsUndefined

\* window.__TAURI__.core.invoke(cmd, payload): the call, with how the
\* promise it returns settles
TauriInvoke(cmd, payload, outcome) == [cmd |-> cmd, payload |-> payload, settled |-> outcome]

\* what the backend resolves a command with, and what it rejects it with
BackendValue == Str("ok")

BackendError == "command failed"

Resolved(v) == [state |-> "resolved", value |-> v, reason |-> ""]

Rejected(e) == [state |-> "rejected", value |-> JsUndefined, reason |-> e]

\* the promise core.invoke returned
Settled(outcome) == IF outcome = "resolved" THEN Resolved(BackendValue) ELSE Rejected(BackendError)

\* send serializing its message even when it is a string
send_StringifyMutant(channel, xs, outcome) ==
  LET json == JSONstringify(Arg(xs, 1))
  IN  IF json.threw THEN [invokes |-> <<>>, promise |-> Resolved(JsUndefined)]
      ELSE [invokes |-> <<TauriInvoke("synchronous_message", MessagePayload(json.value), outcome)>>,
            promise |-> Resolved(JsUndefined)]

\* async send(channel, ...args): the core.invoke calls issued and the
\* promise returned, once settled; whatever the try block throws is logged
send(channel, xs, outcome) ==
  LET message == Arg(xs, 1)
      json    == IF message.t = "string" THEN [threw |-> FALSE, value |-> message]
                 ELSE JSONstringify(message)
  IN  IF json.threw THEN [invokes |-> <<>>, promise |-> Resolved(JsUndefined)]
      ELSE [invokes |-> <<TauriInvoke("synchronous_message", MessagePayload(json.value), outcome)>>,
            promise |-> Resolved(JsUndefined)]

\* invoke with the commands of '/exec/invoke' and 'synchronous-message' exchanged
invoke_SwapMutant(channel, xs, outcome) ==
  CASE channel = "/exec/invoke" ->
         [invokes |-> <<TauriInvoke("synchronous_message", MessagePayload(Arg(xs, 1)), outcome)>>,
          promise |-> Settled(outcome)]
    [] channel = "synchronous-message" ->
         [invokes |-> <<TauriInvoke("exec_invoke", MessagePayload(Arg(xs, 1)), outcome)>>,
          promise |-> Settled(outcome)]
    [] OTHER -> [invokes |-> <<>>, promise |-> Resolved(JsNull)]

\* async invoke(channel, ...args): the core.invoke calls issued and the
\* promise returned, once settled
invoke(channel, xs, outcome) ==
  CASE channel = "/exec/invoke" ->
         [invokes |-> <<TauriInvoke("exec_invoke", MessagePayload(Arg(xs, 1)), outcome)>>,
          promise |-> Settled(outcome)]
    [] channel = "synchronous-message" ->
         [invokes |-> <<TauriInvoke("synchronous_message", MessagePayload(Arg(xs, 1)), outcome)>>,
          promise |-> Settled(outcome)]
    [] channel = "capture-page-to-clipboard" ->
         LET rect == Arg(xs, 2)
         IN  IF rect.t \in {"undefined", "null"}
               THEN [invokes |-> <<>>,
                     promise |-> Rejected("TypeError: Cannot read properties of " \o rect.t)]
               ELSE [invokes |-> <<TauriInvoke("capture_to_clipboard",
                                               Payload({"x", "y", "width", "height"}, JsUndefined,
                                                       Prop(rect, 1), Prop(rect, 2),
                                                       Prop(rect, 3), Prop(rect, 4)),
                                               outcome)>>,
                     promise |-> Settled(outcome)]
    [] OTHER -> [invokes |-> <<>>, promise |-> Resolved(JsNull)]

\* export function isTauriRuntime(): boolean { return isTauri }
isTauriRuntime(t) == t

\* export function isElectronRuntime(): boolean { return isElectron }
isElectronRuntime(e) == e

\* export function getRuntimeName(): string
getRuntimeName(t, e) == IF t THEN "Tauri" ELSE IF e THEN "Electron" ELSE "Unknown"

\* nothing has been asked yet
NoAnswers == [tauri |-> FALSE, electron |-> FALSE, name |-> "", ipc |-> ""]

\* no runtime query has been made
InitRuntimeIdle ==
  /\ asked = {}
  /\ rtTauri = FALSE
  /\ rtElectron = FALSE
  /\ rtName = ""
  /\ first = NoAnswers

\* no call yet
NoOp == [op |-> "", r |-> 0, ch |-> "", l |-> "", args |-> <<>>]

NoScope == [channels |-> {}, listeners |-> {}, renderers |-> 0]

\* no call is made on a TauriIpcRenderer
InitListenersIdle ==
  /\ scope = NoScope
  /\ behaviour = [l \in Listeners |-> "returns"]
  /\ opsLeft = 0
  /\ lastOp = NoOp
  /\ trace = <<>>
  /\ emitThrew = FALSE
  /\ wrappers = <<>>
  /\ onCalls = <<>>

\* no promise yet
NoPromise == [state |-> "none", value |-> JsUndefined, reason |-> ""]

InitInvokeIdle ==
  /\ invokes = <<>>
  /\ promise = NoPromise

InitBridgeIdle == InitRuntimeIdle /\ InitListenersIdle /\ InitInvokeIdle

\* the bridge is not in use
InitIpcIdle ==
  /\ InitBridgeIdle
  /\ windowDefined = FALSE
  /\ tauriGlobal = FALSE
  /\ electronGlobal = FALSE
  /\ loaded = FALSE
  /\ isTauri = FALSE
  /\ isElectron = FALSE
  /\ renderers = <<>>
  /\ ipcCalled = FALSE
  /\ ipcRet = NoRenderer
  /\ ipcErr = ""

(***************************************************************************)
(* The state machines.                                                     *)
(***************************************************************************)
\* no getColor call and no one-step call of prepareCellForDomRenderer
InitColorIdle ==
  /\ gcMode = DEFAULT
  /\ gcColor = 0
  /\ gcDone = FALSE
  /\ gcRet = ""
  /\ cell = BlankCell
  /\ rendered = FALSE
  /\ render = NoRender

\* every activation idle
InitFrames ==
  /\ palette = colorPalette
  /\ st = [i \in Inv |-> "idle"]
  /\ pc = [i \in Inv |-> 0]
  /\ classLists = [i \in Inv |-> <<>>]
  /\ styleLists = [i \in Inv |-> <<>>]
  /\ modeArg = [i \in Inv |-> DEFAULT]
  /\ log = [i \in Inv |-> <<>>]
  /\ ret = [i \in Inv |-> NoRender]
  /\ err = [i \in Inv |-> NoError]

\* no accessor-by-accessor call is started
InitCallsIdle ==
  /\ InitFrames
  /\ args = [i \in Inv |-> WithThrow(BlankCell, 0, "")]
  /\ callsLeft = 0

(***************************************************************************)
(* Spec: a caller holds the arguments of one getColor call and one cell;   *)
(* each function is called once on them.                                   *)
(***************************************************************************)
Init ==
  /\ gcDone = FALSE
  /\ gcRet = ""
  /\ rendered = FALSE
  /\ render = NoRender
  /\ InitCallsIdle
  /\ InitIpcIdle
  /\ \/ /\ gcMode \in Modes
        /\ gcColor \in ColorValues(gcMode)
        /\ cell = BlankCell
     \/ /\ gcMode = DEFAULT
        /\ gcColor = 0
        /\ cell \in Cells

GetColorCall ==
  /\ ~gcDone
  /\ gcRet' = getColor(gcMode, gcColor)
  /\ gcDone' = TRUE
  /\ UNCHANGED <<gcMode, gcColor, cell, rendered, render>>
  /\ UNCHANGED callVars
  /\ UNCHANGED <<ipcVars, bridgeVars>>

PrepareCell ==
  /\ ~rendered
  /\ render' = prepareCellForDomRenderer(cell)
  /\ rendered' = TRUE
  /\ UNCHANGED <<gcMode, gcColor, gcDone, gcRet, cell>>
  /\ UNCHANGED callVars
  /\ UNCHANGED <<ipcVars, bridgeVars>>

Next == GetColorCall \/ PrepareCell

Spec == Init /\ [][Next]_vars

(***************************************************************************)
(* SpecCalls: the repaint loop starts calls of prepareCellForDomRenderer,  *)
(* whose steps (one accessor each) interleave in any order.                *)
(***************************************************************************)
InitCalls ==
  /\ InitColorIdle
  /\ InitIpcIdle
  /\ InitFrames
  /\ \/ /\ args = InterleavedArgs
        /\ callsLeft = NumCalls
     \/ /\ \E c \in ThrowingCells :
             args = [i \in Inv |-> IF i = 1 THEN c ELSE WithThrow(CellA, 0, "")]
        /\ callsLeft = 1

\* the accessor at pc[i] is invoked
Invoked(i) == log' = [log EXCEPT ![i] = Append(@, Accessors[pc[i]])]

\* call i is about to invoke an accessor that returns
Returns(i) == st[i] = "running" /\ args[i].throwsAt # pc[i]

\* the lists kept across calls: a call starts on what a returned call left
Call_KeepMutant(i) ==
  /\ callsLeft > 0
  /\ st[i] = "idle"
  /\ callsLeft' = callsLeft - 1
  /\ st' = [st EXCEPT ![i] = "running"]
  /\ pc' = [pc EXCEPT ![i] = 1]
  /\ LET done == {j \in Inv : st[j] = "returned"}
         last == CHOOSE j \in done : TRUE
     IN  /\ classLists' = [classLists EXCEPT ![i] = IF done = {} THEN <<>> ELSE classLists[last]]
         /\ styleLists' = [styleLists EXCEPT ![i] = IF done = {} THEN <<>> ELSE styleLists[last]]
  /\ UNCHANGED <<args, palette, modeArg, log, ret, err>>
  /\ UNCHANGED colorVars
  /\ UNCHANGED <<ipcVars, bridgeVars>>

\* the call is entered: const classList = [], const styles = []
Call(i) ==
  /\ callsLeft > 0
  /\ st[i] = "idle"
  /\ callsLeft' = callsLeft - 1
  /\ st' = [st EXCEPT ![i] = "running"]
  /\ pc' = [pc EXCEPT ![i] = 1]
  /\ classLists' = [classLists EXCEPT ![i] = <<>>]
  /\ styleLists' = [styleLists EXCEPT ![i] = <<>>]
  /\ UNCHANGED <<args, palette, modeArg, log, ret, err>>
  /\ UNCHANGED colorVars
  /\ UNCHANGED <<ipcVars, bridgeVars>>

\* the failure caught and dropped, the call going on to the next accessor
Throw_SwallowMutant(i) ==
  /\ st[i] = "running"
  /\ args[i].throwsAt = pc[i]
  /\ Invoked(i)
  /\ pc' = [pc EXCEPT ![i] = @ + 1]
  /\ UNCHANGED <<args, palette, callsLeft, st, classLists, styleLists, modeArg, ret, err>>
  /\ UNCHANGED colorVars
  /\ UNCHANGED <<ipcVars, bridgeVars>>

\* an accessor throws: nothing in the body catches, the call ends with it
Throw(i) ==
  /\ st[i] = "running"
  /\ args[i].throwsAt = pc[i]
  /\ Invoked(i)
  /\ st' = [st EXCEPT ![i] = "thrown"]
  /\ err' = [err EXCEPT ![i] = args[i].failure]
  /\ UNCHANGED <<args, palette, callsLeft, pc, classLists, styleLists, modeArg, ret>>
  /\ UNCHANGED colorVars
  /\ UNCHANGED <<ipcVars, bridgeVars>>

\* one classList array for all calls: a push shows in every call's list
AttrStep_SharedMutant(i) ==
  /\ Returns(i)
  /\ pc[i] \in 1..7
  /\ Invoked(i)
  /\ classLists' = [j \in Inv |->
                      pushIf(classLists[j], AccessorResult(args[i], pc[i]), Tokens[pc[i]])]
  /\ pc' = [pc EXCEPT ![i] = @ + 1]
  /\ UNCHANGED <<args, palette, callsLeft, st, styleLists, modeArg, ret, err>>
  /\ UNCHANGED colorVars
  /\ UNCHANGED <<ipcVars, bridgeVars>>

\* if (cell.isBold()) { classList.push('xterm-bold') } and the six after it
AttrStep(i) ==
  /\ Returns(i)
  /\ pc[i] \in 1..7
  /\ Invoked(i)
  /\ classLists' = [classLists EXCEPT
                      ![i] = pushIf(@, AccessorResult(args[i], pc[i]), Tokens[pc[i]])]
  /\ pc' = [pc EXCEPT ![i] = @ + 1]
  /\ UNCHANGED <<args, palette, callsLeft, st, styleLists, modeArg, ret, err>>
  /\ UNCHANGED colorVars
  /\ UNCHANGED <<ipcVars, bridgeVars>>

\* the colour value not read when the mode is DEFAULT
FgMode_SkipMutant(i) ==
  /\ Returns(i)
  /\ pc[i] = 8
  /\ Invoked(i)
  /\ modeArg' = [modeArg EXCEPT ![i] = AccessorResult(args[i], 8)]
  /\ pc' = [pc EXCEPT ![i] = IF AccessorResult(args[i], 8) = DEFAULT THEN 10 ELSE 9]
  /\ UNCHANGED <<args, palette, callsLeft, st, classLists, styleLists, ret, err>>
  /\ UNCHANGED colorVars
  /\ UNCHANGED <<ipcVars, bridgeVars>>

\* cell.getFgColorMode(), the first argument of getColor
FgMode(i) ==
  /\ Returns(i)
  /\ pc[i] = 8
  /\ Invoked(i)
  /\ modeArg' = [modeArg EXCEPT ![i] = AccessorResult(args[i], 8)]
  /\ pc' = [pc EXCEPT ![i] = 9]
  /\ UNCHANGED <<args, palette, callsLeft, st, classLists, styleLists, ret, err>>
  /\ UNCHANGED colorVars
  /\ UNCHANGED <<ipcVars, bridgeVars>>

\* cell.getFgColor(), getColor, and the push of the 'color' declaration
FgColor(i) ==
  /\ Returns(i)
  /\ pc[i] = 9
  /\ Invoked(i)
  /\ LET fgColor == getColorReading(palette, modeArg[i], AccessorResult(args[i], 9))
     IN  styleLists' = [styleLists EXCEPT
                          ![i] = pushIf(@, fgColor # "", "color: " \o fgColor)]
  /\ pc' = [pc EXCEPT ![i] = 10]
  /\ UNCHANGED <<args, palette, callsLeft, st, classLists, modeArg, ret, err>>
  /\ UNCHANGED colorVars
  /\ UNCHANGED <<ipcVars, bridgeVars>>

\* cell.getBgColorMode()
BgMode(i) ==
  /\ Returns(i)
  /\ pc[i] = 10
  /\ Invoked(i)
  /\ modeArg' = [modeArg EXCEPT ![i] = AccessorResult(args[i], 10)]
  /\ pc' = [pc EXCEPT ![i] = 11]
  /\ UNCHANGED <<args, palette, callsLeft, st, classLists, styleLists, ret, err>>
  /\ UNCHANGED colorVars
  /\ UNCHANGED <<ipcVars, bridgeVars>>

\* cell.getBgColor(), getColor, and the push of the 'background-color' declaration
BgColor(i) ==
  /\ Returns(i)
  /\ pc[i] = 11
  /\ Invoked(i)
  /\ LET bgColor == getColorReading(palette, modeArg[i], AccessorResult(args[i], 11))
     IN  styleLists' = [styleLists EXCEPT
                          ![i] = pushIf(@, bgColor # "", "background-color: " \o bgColor)]
  /\ pc' = [pc EXCEPT ![i] = 12]
  /\ UNCHANGED <<args, palette, callsLeft, st, classLists, modeArg, ret, err>>
  /\ UNCHANGED colorVars
  /\ UNCHANGED <<ipcVars, bridgeVars>>

\* the characters read are cleared on the cell
Return_WriteMutant(i) ==
  /\ Returns(i)
  /\ pc[i] = 12
  /\ Invoked(i)
  /\ ret' = [ret EXCEPT ![i] = [ classList   |-> join(classLists[i], " "),
                                 style       |-> join(styleLists[i], "; "),
                                 textContent |-> AccessorResult(args[i], 12) ]]
  /\ args' = [args EXCEPT ![i].chars = ""]
  /\ st' = [st EXCEPT ![i] = "returned"]
  /\ pc' = [pc EXCEPT ![i] = 13]
  /\ UNCHANGED <<palette, callsLeft, classLists, styleLists, modeArg, err>>
  /\ UNCHANGED colorVars
  /\ UNCHANGED <<ipcVars, bridgeVars>>

\* return { classList.join(' '), styles.join('; '), cell.getChars() }
Return(i) ==
  /\ Returns(i)
  /\ pc[i] = 12
  /\ Invoked(i)
  /\ ret' = [ret EXCEPT ![i] = [ classList   |-> join(classLists[i], " "),
                                 style       |-> join(styleLists[i], "; "),
                                 textContent |-> AccessorResult(args[i], 12) ]]
  /\ st' = [st EXCEPT ![i] = "returned"]
  /\ pc' = [pc EXCEPT ![i] = 13]
  /\ UNCHANGED <<args, palette, callsLeft, classLists, styleLists, modeArg, err>>
  /\ UNCHANGED colorVars
  /\ UNCHANGED <<ipcVars, bridgeVars>>

\* one step of call i
Step(i) ==
  \/ Throw(i)
  \/ AttrStep(i)
  \/ FgMode(i)
  \/ FgColor(i)
  \/ BgMode(i)
  \/ BgColor(i)
  \/ Return(i)

NextCalls == \E i \in Inv : Call(i) \/ Step(i)

SpecCalls == InitCalls /\ [][NextCalls]_vars

(***************************************************************************)
(* SpecIpc: the page's globals are as the host runtime set them; the       *)
(* bridge module is evaluated once, then its functions are called.         *)
(***************************************************************************)
InitIpc ==
  /\ InitColorIdle
  /\ InitCallsIdle
  /\ InitBridgeIdle
  /\ windowDefined \in BOOLEAN
  /\ tauriGlobal \in BOOLEAN
  /\ electronGlobal \in BOOLEAN
  /\ (~windowDefined => (~tauriGlobal /\ ~electronGlobal))
  /\ loaded = FALSE
  /\ isTauri = FALSE
  /\ isElectron = FALSE
  /\ renderers = <<>>
  /\ ipcCalled = FALSE
  /\ ipcRet = NoRenderer
  /\ ipcErr = ""

\* the module's top level: the two detection constants are computed
LoadModule ==
  /\ ~loaded
  /\ loaded' = TRUE
  /\ isTauri' = detectTauri(windowDefined, tauriGlobal)
  /\ isElectron' = detectElectron(windowDefined, electronGlobal)
  /\ UNCHANGED <<windowDefined, tauriGlobal, electronGlobal, renderers, ipcCalled,
                 ipcRet, ipcErr>>
  /\ UNCHANGED <<colorVars, callVars>>

\* a call of getIpcRenderer()
GetIpcRenderer ==
  /\ loaded
  /\ Len(renderers) < MaxRenderers
  /\ LET r == getIpcRenderer(isTauri, isElectron, Len(renderers) + 1)
     IN  /\ ipcRet' = r.ret
         /\ ipcErr' = r.err
         /\ renderers' = IF r.ret.kind = "TauriIpcRenderer"
                           THEN Append(renderers, NewListeners)
                           ELSE renderers
  /\ ipcCalled' = TRUE
  /\ UNCHANGED <<windowDefined, tauriGlobal, electronGlobal, loaded, isTauri, isElectron>>
  /\ UNCHANGED <<colorVars, callVars>>

\* on(channel, listener) with one listeners map shared by every renderer
On_SharedMutant(r, ch, l) ==
  /\ r \in 1..Len(renderers)
  /\ renderers' = [k \in DOMAIN renderers |-> on(renderers[k], ch, l)]
  /\ UNCHANGED <<windowDefined, tauriGlobal, electronGlobal, loaded, isTauri, isElectron,
                 ipcCalled, ipcRet, ipcErr>>
  /\ UNCHANGED <<colorVars, callVars>>

\* TauriIpcRenderer.on(channel, listener) on renderer r
On(r, ch, l) ==
  /\ r \in 1..Len(renderers)
  /\ renderers' = [renderers EXCEPT ![r] = on(@, ch, l)]
  /\ UNCHANGED <<windowDefined, tauriGlobal, electronGlobal, loaded, isTauri, isElectron,
                 ipcCalled, ipcRet, ipcErr>>
  /\ UNCHANGED <<colorVars, callVars>>

\* TauriIpcRenderer.removeListener(channel, listener) on renderer r
RemoveListener(r, ch, l) ==
  /\ r \in 1..Len(renderers)
  /\ renderers' = [renderers EXCEPT ![r] = removeListener(@, ch, l)]
  /\ UNCHANGED <<windowDefined, tauriGlobal, electronGlobal, loaded, isTauri, isElectron,
                 ipcCalled, ipcRet, ipcErr>>
  /\ UNCHANGED <<colorVars, callVars>>

NextIpc ==
  \/ LoadModule /\ UNCHANGED bridgeVars
  \/ GetIpcRenderer /\ UNCHANGED bridgeVars
  \/ \E r \in 1..MaxRenderers, ch \in Channels, l \in Listeners :
       On(r, ch, Fn(l)) /\ UNCHANGED bridgeVars
  \/ \E r \in 1..MaxRenderers, ch \in Channels, l \in Listeners :
       RemoveListener(r, ch, Fn(l)) /\ UNCHANGED bridgeVars

SpecIpc == InitIpc /\ [][NextIpc]_vars

(***************************************************************************)
(* SpecRuntime: the exported runtime queries, called any number of times   *)
(* after the module has loaded, while the page's globals change.           *)
(***************************************************************************)
\* window.__TAURI__ or window.electron is set or deleted after the load
GlobalsChange ==
  /\ loaded
  /\ windowDefined
  /\ tauriGlobal' \in BOOLEAN
  /\ electronGlobal' \in BOOLEAN
  /\ <<tauriGlobal', electronGlobal'>> # <<tauriGlobal, electronGlobal>>
  /\ UNCHANGED <<windowDefined, loaded, isTauri, isElectron, renderers, ipcCalled,
                 ipcRet, ipcErr>>
  /\ UNCHANGED <<colorVars, callVars, bridgeVars>>

\* a call of isTauriRuntime()
IsTauriRuntime ==
  /\ loaded
  /\ rtTauri' = isTauriRuntime(isTauri)
  /\ asked' = asked \cup {"isTauriRuntime"}
  /\ first' = IF "isTauriRuntime" \in asked THEN first
              ELSE [first EXCEPT !.tauri = isTauriRuntime(isTauri)]
  /\ UNCHANGED <<rtElectron, rtName>>
  /\ UNCHANGED <<colorVars, callVars, ipcVars, lsVars, ivVars>>

\* a call of isElectronRuntime()
IsElectronRuntime ==
  /\ loaded
  /\ rtElectron' = isElectronRuntime(isElectron)
  /\ asked' = asked \cup {"isElectronRuntime"}
  /\ first' = IF "isElectronRuntime" \in asked THEN first
              ELSE [first EXCEPT !.electron = isElectronRuntime(isElectron)]
  /\ UNCHANGED <<rtTauri, rtName>>
  /\ UNCHANGED <<colorVars, callVars, ipcVars, lsVars, ivVars>>

\* getRuntimeName() detecting the runtime again at each call
GetRuntimeName_DetectMutant ==
  LET name == getRuntimeName(detectTauri(windowDefined, tauriGlobal),
                             detectElectron(windowDefined, electronGlobal))
  IN  /\ loaded
      /\ rtName' = name
      /\ asked' = asked \cup {"getRuntimeName"}
      /\ first' = IF "getRuntimeName" \in asked THEN first ELSE [first EXCEPT !.name = name]
      /\ UNCHANGED <<rtTauri, rtElectron>>
      /\ UNCHANGED <<colorVars, callVars, ipcVars, lsVars, ivVars>>

\* a call of getRuntimeName()
GetRuntimeName ==
  /\ loaded
  /\ rtName' = getRuntimeName(isTauri, isElectron)
  /\ asked' = asked \cup {"getRuntimeName"}
  /\ first' = IF "getRuntimeName" \in asked THEN first
              ELSE [first EXCEPT !.name = getRuntimeName(isTauri, isElectron)]
  /\ UNCHANGED <<rtTauri, rtElectron>>
  /\ UNCHANGED <<colorVars, callVars, ipcVars, lsVars, ivVars>>

\* what a getIpcRenderer call answered: the kind of object, or that it threw
IpcAnswer(r, e) == IF e # "" THEN "throws" ELSE r.kind

NextRuntime ==
  \/ LoadModule /\ UNCHANGED bridgeVars
  \/ GlobalsChange
  \/ IsTauriRuntime
  \/ IsElectronRuntime
  \/ GetRuntimeName
  \/ /\ GetIpcRenderer
     /\ asked' = asked \cup {"getIpcRenderer"}
     /\ first' = IF "getIpcRenderer" \in asked THEN first
                 ELSE [first EXCEPT !.ipc = IpcAnswer(ipcRet', ipcErr')]
     /\ UNCHANGED <<rtTauri, rtElectron, rtName, lsVars, ivVars>>

SpecRuntime == InitIpc /\ [][NextRuntime]_vars

(***************************************************************************)
(* SpecListeners: a page in the Tauri runtime gets its renderers and calls *)
(* on, once, removeListener and emit on them.                              *)
(***************************************************************************)
\* what the calls draw from: one renderer with every channel and listener,
\* or every renderer with one channel and one listener
Scopes ==
  {[channels |-> Channels, listeners |-> Listeners, renderers |-> 1],
   [channels |-> {"synchronous-message"}, listeners |-> {"l1"}, renderers |-> MaxRenderers]}

\* what the bodies of the page's listeners do
Behaviours ==
  {[l \in Listeners |-> IF l = "l1" THEN "returns" ELSE "throws"],
   [l \in Listeners |-> IF l = "l1" THEN "emits" ELSE "returns"],
   [l \in Listeners |-> IF l = "l1" THEN "throws" ELSE "emits"]}

\* the ...args of an emit
EmitArgs == {<<>>, <<"pty-data">>}

InitListeners ==
  /\ InitColorIdle
  /\ InitCallsIdle
  /\ InitRuntimeIdle
  /\ InitInvokeIdle
  /\ windowDefined = TRUE
  /\ tauriGlobal = TRUE
  /\ electronGlobal = FALSE
  /\ loaded = FALSE
  /\ isTauri = FALSE
  /\ isElectron = FALSE
  /\ renderers = <<>>
  /\ ipcCalled = FALSE
  /\ ipcRet = NoRenderer
  /\ ipcErr = ""
  /\ scope \in Scopes
  /\ behaviour \in Behaviours
  /\ opsLeft = MaxOps
  /\ lastOp = NoOp
  /\ trace = <<>>
  /\ emitThrew = FALSE
  /\ wrappers = <<>>
  /\ onCalls = <<>>

\* the page makes one more call on renderer r, with a channel of its scope
MayCall(r, ch) ==
  /\ opsLeft > 0
  /\ opsLeft' = opsLeft - 1
  /\ r \in 1 .. Len(renderers)
  /\ ch \in scope.channels

\* the page calls getIpcRenderer()
NewRenderer ==
  /\ scope.renderers > Len(renderers)
  /\ GetIpcRenderer
  /\ onCalls' = Append(onCalls, [ch \in Channels |-> [l \in Listeners |-> 0]])
  /\ lastOp' = [NoOp EXCEPT !.op = "getIpcRenderer", !.r = Len(renderers) + 1]
  /\ UNCHANGED <<scope, behaviour, opsLeft, trace, emitThrew, wrappers>>
  /\ UNCHANGED <<rtVars, ivVars>>

\* the page calls on(ch, l) on renderer r
CallOn(r, ch, l) ==
  /\ MayCall(r, ch)
  /\ On(r, ch, Fn(l))
  /\ onCalls' = [onCalls EXCEPT ![r][ch][l] = @ + 1]
  /\ lastOp' = [NoOp EXCEPT !.op = "on", !.r = r, !.ch = ch, !.l = l]
  /\ UNCHANGED <<scope, behaviour, trace, emitThrew, wrappers>>
  /\ UNCHANGED <<rtVars, ivVars>>

\* the page calls removeListener(ch, l) on renderer r
CallRemoveListener(r, ch, l) ==
  /\ MayCall(r, ch)
  /\ RemoveListener(r, ch, Fn(l))
  /\ onCalls' = [onCalls EXCEPT ![r][ch][l] = 0]
  /\ wrappers' = [w \in DOMAIN wrappers |->
                    IF wrappers[w].r = r /\ wrappers[w].ch = ch /\ wrappers[w].fn = l
                      THEN [wrappers[w] EXCEPT !.cancelled = TRUE] ELSE wrappers[w]]
  /\ lastOp' = [NoOp EXCEPT !.op = "removeListener", !.r = r, !.ch = ch, !.l = l]
  /\ UNCHANGED <<scope, behaviour, trace, emitThrew>>
  /\ UNCHANGED <<rtVars, ivVars>>

\* TauriIpcRenderer.once(channel, listener) on renderer r
Once(r, ch, l) ==
  LET n == Len(wrappers) + 1
  IN  /\ MayCall(r, ch)
      /\ renderers' = [renderers EXCEPT ![r] = on(@, ch, Wrapped(l, n))]
      /\ wrappers' = Append(wrappers, [r |-> r, ch |-> ch, fn |-> l, calls |-> 0,
                                        cancelled |-> FALSE])
      /\ lastOp' = [NoOp EXCEPT !.op = "once", !.r = r, !.ch = ch, !.l = l]
      /\ UNCHANGED <<windowDefined, tauriGlobal, electronGlobal, loaded, isTauri,
                     isElectron, ipcCalled, ipcRet, ipcErr>>
      /\ UNCHANGED <<scope, behaviour, trace, emitThrew, onCalls>>
      /\ UNCHANGED <<colorVars, callVars, rtVars, ivVars>>

\* how many invocations of seq were made through wrappedListener n
CallsThrough(seq, n) == Cardinality({k \in 1 .. Len(seq) : seq[k].wrap = n})

\* TauriIpcRenderer.emit(channel, ...args) on renderer r
Emit(r, ch, rest) ==
  /\ MayCall(r, ch)
  /\ LET res == emit(behaviour, renderers[r], ch, rest, 0)
     IN  /\ renderers' = [renderers EXCEPT ![r] = res.reg]
         /\ trace' = res.calls
         /\ emitThrew' = res.threw
         /\ wrappers' = [w \in DOMAIN wrappers |->
                           [wrappers[w] EXCEPT !.calls = @ + CallsThrough(res.calls, w)]]
  /\ lastOp' = [NoOp EXCEPT !.op = "emit", !.r = r, !.ch = ch, !.args = rest]
  /\ UNCHANGED <<windowDefined, tauriGlobal, electronGlobal, loaded, isTauri,
                 isElectron, ipcCalled, ipcRet, ipcErr>>
  /\ UNCHANGED <<scope, behaviour, onCalls>>
  /\ UNCHANGED <<colorVars, callVars, rtVars, ivVars>>

NextListeners ==
  \/ LoadModule /\ UNCHANGED bridgeVars
  \/ NewRenderer
  \/ \E r \in 1 .. MaxRenderers, ch \in Channels, l \in scope.listeners : CallOn(r, ch, l)
  \/ \E r \in 1 .. MaxRenderers, ch \in Channels, l \in scope.listeners : Once(r, ch, l)
  \/ \E r \in 1 .. MaxRenderers, ch \in Channels, l \in scope.listeners :
       CallRemoveListener(r, ch, l)
  \/ \E r \in 1 .. MaxRenderers, ch \in Channels, rest \in EmitArgs : Emit(r, ch, rest)

SpecListeners == InitListeners /\ [][NextListeners]_vars

(***************************************************************************)
(* SpecInvoke: a page in the Tauri runtime registers listeners on its      *)
(* renderer and calls send and invoke on it.                               *)
(***************************************************************************)
\* the channels send and invoke are called with
InvokeChannels == Channels \cup {"capture-page-to-clipboard", "unknown-channel"}

\* the ...args of a send or an invoke
ArgLists ==
  {<<>>, <<Str("ls -l")>>, <<Num(42)>>, <<Arr(<<"ls", "-l">>)>>, <<JsNull>>, <<Cyclic>>,
   <<Num(7), Rect(1, 2, 30, 40)>>, <<Str("ls"), Str("pwd")>>}

\* how the backend settles a command
Outcomes == {"resolved", "rejected"}

\* one renderer, whose listeners are registered on one channel
InitInvoke ==
  /\ InitColorIdle
  /\ InitCallsIdle
  /\ InitRuntimeIdle
  /\ InitInvokeIdle
  /\ windowDefined = TRUE
  /\ tauriGlobal = TRUE
  /\ electronGlobal = FALSE
  /\ loaded = FALSE
  /\ isTauri = FALSE
  /\ isElectron = FALSE
  /\ renderers = <<>>
  /\ ipcCalled = FALSE
  /\ ipcRet = NoRenderer
  /\ ipcErr = ""
  /\ scope = [channels |-> {"synchronous-message"}, listeners |-> Listeners, renderers |-> 1]
  /\ behaviour = [l \in Listeners |-> "returns"]
  /\ opsLeft = MaxOps
  /\ lastOp = NoOp
  /\ trace = <<>>
  /\ emitThrew = FALSE
  /\ wrappers = <<>>
  /\ onCalls = <<>>

\* TauriIpcRenderer.send(channel, ...args) on renderer r
Send(r, channel, xs, outcome) ==
  /\ r \in 1 .. Len(renderers)
  /\ LET res == send(channel, xs, outcome)
     IN  /\ invokes' = res.invokes
         /\ promise' = res.promise
  /\ lastOp' = [NoOp EXCEPT !.op = "send", !.r = r, !.ch = channel, !.args = xs]
  /\ UNCHANGED <<scope, behaviour, opsLeft, trace, emitThrew, wrappers, onCalls>>
  /\ UNCHANGED <<colorVars, callVars, ipcVars, rtVars>>

\* TauriIpcRenderer.invoke(channel, ...args) on renderer r
Invoke(r, channel, xs, outcome) ==
  /\ r \in 1 .. Len(renderers)
  /\ LET res == invoke(channel, xs, outcome)
     IN  /\ invokes' = res.invokes
         /\ promise' = res.promise
  /\ lastOp' = [NoOp EXCEPT !.op = "invoke", !.r = r, !.ch = channel, !.args = xs]
  /\ UNCHANGED <<scope, behaviour, opsLeft, trace, emitThrew, wrappers, onCalls>>
  /\ UNCHANGED <<colorVars, callVars, ipcVars, rtVars>>

NextInvoke ==
  \/ LoadModule /\ UNCHANGED bridgeVars
  \/ NewRenderer
  \/ \E r \in 1 .. MaxRenderers, ch \in Channels, l \in scope.listeners : CallOn(r, ch, l)
  \/ \E r \in 1 .. MaxRenderers, channel \in InvokeChannels, xs \in ArgLists,
        outcome \in Outcomes : Send(r, channel, xs, outcome)
  \/ \E r \in 1 .. MaxRenderers, channel \in InvokeChannels, xs \in ArgLists,
        outcome \in Outcomes : Invoke(r, channel, xs, outcome)

SpecInvoke == InitInvoke /\ [][NextInvoke]_vars

(***************************************************************************)
(* What the claims are stated with: hexadecimal written out from a digit   *)
(* table, and tests on strings.                                            *)
(***************************************************************************)
LowerHex == <<"0", "1", "2", "3", "4", "5", "6", "7",
              "8", "9", "a", "b", "c", "d", "e", "f">>

LowerHexDigits == {LowerHex[i] : i \in 1..16}

\* the two-digit hex of n in 0..255
TwoHex(n) == LowerHex[(n \div 16) + 1] \o LowerHex[(n % 16) + 1]

\* the hex of n >= 0 with no padding
RECURSIVE HexStr(_)
HexStr(n) == IF n < 16 THEN LowerHex[n + 1] ELSE HexStr(n \div 16) \o LowerHex[(n % 16) + 1]

StartsWith(s, p) == Len(s) >= Len(p) /\ SubSeq(s, 1, Len(p)) = p

Contains(s, p) == \E i \in 1 .. (Len(s) - Len(p) + 1) : SubSeq(s, i, i + Len(p) - 1) = p

\* how many times p occurs in s
Occurrences(s, p) ==
  Cardinality({i \in 1 .. (Len(s) - Len(p) + 1) : SubSeq(s, i, i + Len(p) - 1) = p})

\* the six levels of a cube axis: 0, 95, 135, 175, 215, 255
CubeLevel(k) == IF k = 0 THEN 0 ELSE k * 40 + 55

\* C1: a palette value of the 6x6x6 cube (16..231) resolves to '#' and the
\* two-digit lowercase hex of the levels of r = c/36, g = (c mod 36)/6,
\* b = c mod 6, c = value - 16; 16 gives #000000 and 231 gives #ffffff.
C1_CubeColor ==
  (gcDone /\ gcMode = PALETTE /\ gcColor >= 16 /\ gcColor < 232) =>
    LET c == gcColor - 16
        r == c \div 36
        g == (c % 36) \div 6
        b == c % 6
    IN  /\ gcRet = "#" \o TwoHex(CubeLevel(r)) \o TwoHex(CubeLevel(g)) \o TwoHex(CubeLevel(b))
        /\ (gcColor = 16 => gcRet = "#000000")
        /\ (gcColor = 231 => gcRet = "#ffffff")

C1_Witness == gcDone /\ gcMode = PALETTE /\ gcColor = 231 /\ gcRet = "#ffffff"

\* C2: a palette value of the grayscale ramp (232..255) resolves to the
\* colour whose three channels are (value - 232)*10 + 8, in two-digit
\* lowercase hex; 232 gives #080808 and 255 gives #eeeeee.
C2_GrayColor ==
  (gcDone /\ gcMode = PALETTE /\ gcColor >= 232 /\ gcColor < 256) =>
    LET gray == (gcColor - 232) * 10 + 8
    IN  /\ gcRet = "#" \o TwoHex(gray) \o TwoHex(gray) \o TwoHex(gray)
        /\ (gcColor = 232 => gcRet = "#080808")
        /\ (gcColor = 255 => gcRet = "#eeeeee")

C2_Witness == gcDone /\ gcMode = PALETTE /\ gcColor = 255 /\ gcRet = "#eeeeee"

\* the ANSI table as the claim lists it
AnsiTable ==
  << "#000000", "#cd0000", "#00cd00", "#cdcd00", "#0000ee", "#cd00cd", "#00cdcd", "#e5e5e5",
     "#7f7f7f", "#ff0000", "#00ff00", "#ffff00", "#5c5cff", "#ff00ff", "#00ffff", "#ffffff" >>

\* C3: a palette value in 0..15 resolves to that entry of the fixed ANSI
\* table; 1 gives #cd0000.
C3_AnsiColor ==
  (gcDone /\ gcMode = PALETTE /\ gcColor >= 0 /\ gcColor < 16) =>
    /\ gcRet = AnsiTable[gcColor + 1]
    /\ (gcColor = 1 => gcRet = "#cd0000")

C3_Witness == gcDone /\ gcMode = PALETTE /\ gcColor = 4 /\ gcRet = "#0000ee"

\* C4: a 24-bit RGB value resolves to '#' and the two-digit lowercase hex
\* of its bytes 2, 1 and 0, in that order; 0xFF8000 gives #ff8000.
C4_RgbColor ==
  (gcDone /\ gcMode = RGB /\ gcColor >= 0 /\ gcColor < 16777216) =>
    LET r == gcColor \div 65536
        g == (gcColor \div 256) % 256
        b == gcColor % 256
    IN  /\ gcRet = "#" \o TwoHex(r) \o TwoHex(g) \o TwoHex(b)
        /\ (gcColor = 16744448 => gcRet = "#ff8000")

C4_Witness == gcDone /\ gcMode = RGB /\ gcColor = 16744448 /\ gcRet = "#ff8000"

\* C5: in mode DEFAULT every colour value resolves to the empty string, and
\* a cell whose foreground (background) mode is DEFAULT gets no 'color'
\* ('background-color') declaration in its style.
C5_DefaultEmpty ==
  /\ (gcDone /\ gcMode = DEFAULT) => gcRet = ""
  /\ (rendered /\ cell.fgColorMode = DEFAULT) => ~StartsWith(render.style, "color: ")
  /\ (rendered /\ cell.bgColorMode = DEFAULT) => ~Contains(render.style, "background-color: ")

C5_Witness ==
  /\ gcDone /\ gcMode = DEFAULT /\ gcRet = ""
  /\ rendered /\ cell.fgColorMode = DEFAULT /\ cell.fgColor = 200
  /\ cell.bgColorMode = PALETTE /\ cell.bgColor = 1
  /\ render.style = "background-color: #cd0000"

\* C6: a mode other than DEFAULT, PALETTE and RGB resolves every colour
\* value to the empty string.
C6_OtherModeEmpty ==
  (gcDone /\ gcMode \notin {DEFAULT, PALETTE, RGB}) => gcRet = ""

C6_Witness == gcDone /\ gcMode = 16777216 /\ gcColor = 1 /\ gcRet = ""

\* C7: a non-empty colour resolved for PALETTE with a value in 0..255, or
\* for RGB with any value, is 7 characters: '#' and 6 lowercase hex digits.
C7_SevenChars ==
  (/\ gcDone
   /\ \/ gcMode = PALETTE /\ gcColor >= 0 /\ gcColor <= 255
      \/ gcMode = RGB
   /\ gcRet # "") =>
    /\ Len(gcRet) = 7
    /\ SubSeq(gcRet, 1, 1) = "#"
    /\ \A i \in 2..7 : SubSeq(gcRet, i, i) \in LowerHexDigits

C7_Witness == gcDone /\ gcMode = RGB /\ gcColor = 65536 + 9 /\ gcRet = "#010009"

\* C8 as stated: a palette value of 256 or more resolves to the empty string.
C8_Original ==
  (gcDone /\ gcMode = PALETTE /\ gcColor >= 256) => gcRet = ""

\* C8: a palette value of 256 or more takes the grayscale branch: it
\* resolves to '#' and three copies of the unpadded lowercase hex of
\* (value - 232)*10 + 8, never to the empty string (#f8f8f8 for 256, and
\* more than 7 characters from 257 on), so the cell does get a declaration.
C8_PaletteOverflowGray ==
  /\ (gcDone /\ gcMode = PALETTE /\ gcColor >= 256) =>
       LET h == HexStr((gcColor - 232) * 10 + 8)
       IN  /\ gcRet = "#" \o h \o h \o h
           /\ gcRet # ""
           /\ (gcColor = 256 => gcRet = "#f8f8f8")
           /\ (gcColor >= 257 => Len(gcRet) > 7)
  /\ (rendered /\ cell.fgColorMode = PALETTE /\ cell.fgColor >= 256) =>
       StartsWith(render.style, "color: #")
  /\ (rendered /\ cell.bgColorMode = PALETTE /\ cell.bgColor >= 256) =>
       Contains(render.style, "background-color: #")

C8_Witness == gcDone /\ gcMode = PALETTE /\ gcColor = 257 /\ gcRet = "#102102102"

\* C9: RGB decoding ignores the sign and the bits above bit 23: a value of
\* the 32-bit range resolves as its residue modulo 2^24 does, to a colour
\* of three channels in 0..255.
C9_RgbIgnoresHighBits ==
  (gcDone /\ gcMode = RGB) =>
    LET low == gcColor % 16777216
        r == low \div 65536
        g == (low \div 256) % 256
        b == low % 256
    IN  /\ gcRet = getColor(RGB, low)
        /\ gcRet = "#" \o TwoHex(r) \o TwoHex(g) \o TwoHex(b)
        /\ \A i \in 1..3 : rgbChannels(gcColor)[i] \in 0..255

C9_Witness ==
  gcDone /\ gcMode = RGB /\ gcColor = (-128) * 16777216 + 16744448 /\ gcRet = "#ff8000"

\* the token of an attribute when it is set, after a space
Tok(test, token) == IF test THEN " " \o token ELSE ""

\* C10: the classList of a cell is the tokens of its true attributes, each
\* once, in the order bold, italic, dim, underline, strikethrough, blink,
\* invisible, joined by single spaces; empty when no attribute is true.
C10_ClassList ==
  rendered =>
    LET spaced == Tok(cell.isBold, "xterm-bold") \o Tok(cell.isItalic, "xterm-italic")
                  \o Tok(cell.isDim, "xterm-dim") \o Tok(cell.isUnderline, "xterm-underline")
                  \o Tok(cell.isStrikethrough, "xterm-strikethrough")
                  \o Tok(cell.isBlink, "xterm-blink")
                  \o Tok(cell.isInvisible, "xterm-invisible")
        expected == IF spaced = "" THEN "" ELSE Tail(spaced)
        attrs == <<cell.isBold, cell.isItalic, cell.isDim, cell.isUnderline,
                   cell.isStrikethrough, cell.isBlink, cell.isInvisible>>
        tokens == <<"xterm-bold", "xterm-italic", "xterm-dim", "xterm-underline",
                    "xterm-strikethrough", "xterm-blink", "xterm-invisible">>
    IN  /\ render.classList = expected
        /\ \A i \in 1..7 :
             Occurrences(render.classList, tokens[i]) = (IF attrs[i] THEN 1 ELSE 0)
        /\ ((\A i \in 1..7 : ~attrs[i]) <=> render.classList = "")
        /\ ((attrs[1] /\ \A i \in 2..7 : ~attrs[i]) => render.classList = "xterm-bold")
        /\ ~Contains(render.classList, "  ")

C10_Witness ==
  /\ rendered /\ cell.isBold /\ ~cell.isItalic /\ cell.isDim /\ ~cell.isUnderline
  /\ ~cell.isStrikethrough /\ ~cell.isBlink /\ cell.isInvisible
  /\ render.classList = "xterm-bold xterm-dim xterm-invisible"

\* C11: the style of a cell is "color: <fg>" when the foreground resolves
\* to a non-empty colour, then "background-color: <bg>" when the background
\* does, joined by "; "; it is empty exactly when both colours are empty.
C11_Style ==
  rendered =>
    LET fg == getColor(cell.fgColorMode, cell.fgColor)
        bg == getColor(cell.bgColorMode, cell.bgColor)
        expected == IF fg # "" /\ bg # ""
                      THEN "color: " \o fg \o "; " \o "background-color: " \o bg
                    ELSE IF fg # "" THEN "color: " \o fg
                    ELSE IF bg # "" THEN "background-color: " \o bg
                    ELSE ""
    IN  /\ render.style = expected
        /\ (StartsWith(render.style, "color: ") <=> fg # "")
        /\ (Contains(render.style, "background-color: ") <=> bg # "")
        /\ Occurrences(render.style, "; ") = (IF fg # "" /\ bg # "" THEN 1 ELSE 0)
        /\ (render.style = "" <=> (fg = "" /\ bg = ""))
        /\ ((cell.fgColorMode = DEFAULT /\ cell.bgColorMode = PALETTE /\ cell.bgColor = 1)
              => render.style = "background-color: #cd0000")

C11_Witness ==
  /\ rendered /\ cell.fgColorMode = PALETTE /\ cell.fgColor = 1
  /\ cell.bgColorMode = RGB /\ cell.bgColor = 16744448
  /\ render.style = "color: #cd0000; background-color: #ff8000"

\* C12: the textContent of a cell is the string its getChars() returns,
\* whatever its attributes and colours.
C12_TextContent ==
  rendered => render.textContent = cell.chars

C12_Witness ==
  /\ rendered /\ cell.chars = "" /\ render.textContent = ""
  /\ cell.isBold /\ cell.fgColorMode = RGB /\ cell.bgColorMode = PALETTE

\* C14: getColor returns a string, never undefined, for every mode and
\* every colour value that is not negative.
C14_Total ==
  (gcDone /\ gcColor >= 0) =>
    /\ gcRet # Undefined
    /\ gcRet \in STRING
    /\ Len(gcRet) >= 0

C14_Witness == gcDone /\ gcMode = PALETTE /\ gcColor = 15 /\ gcRet = "#ffffff"

\* the index of the first occurrence of p in s, 0 when there is none
FirstIndex(s, p) ==
  LET at == {i \in 1 .. (Len(s) - Len(p) + 1) : SubSeq(s, i, i + Len(p) - 1) = p}
  IN  IF at = {} THEN 0 ELSE CHOOSE i \in at : \A j \in at : i <= j

\* the 'color' declaration of a style, "" when it has none
FgDecl(style) ==
  IF ~StartsWith(style, "color: ") THEN ""
  ELSE IF Contains(style, "; ") THEN SubSeq(style, 1, FirstIndex(style, "; ") - 1)
  ELSE style

\* the 'background-color' declaration of a style, "" when it has none
BgDecl(style) ==
  IF ~Contains(style, "background-color: ") THEN ""
  ELSE SubSeq(style, FirstIndex(style, "background-color: "), Len(style))

\* C19: the outputs do not interfere: the classList of a cell is that of
\* the cell with the same attributes and no colour or character, its
\* 'color' declaration that of the cell with the same foreground and
\* nothing else, its 'background-color' declaration likewise.
C19_NoInterference ==
  rendered =>
    LET attrOnly == [cell EXCEPT !.fgColorMode = DEFAULT, !.fgColor = 0,
                                 !.bgColorMode = DEFAULT, !.bgColor = 0, !.chars = ""]
        fgOnly == [BlankCell EXCEPT !.fgColorMode = cell.fgColorMode,
                                    !.fgColor = cell.fgColor]
        bgOnly == [BlankCell EXCEPT !.bgColorMode = cell.bgColorMode,
                                    !.bgColor = cell.bgColor]
    IN  /\ render.classList = prepareCellForDomRenderer(attrOnly).classList
        /\ FgDecl(render.style) = prepareCellForDomRenderer(fgOnly).style
        /\ BgDecl(render.style) = prepareCellForDomRenderer(bgOnly).style
        /\ prepareCellForDomRenderer(fgOnly).classList = ""
        /\ prepareCellForDomRenderer(bgOnly).classList = ""

C19_Witness ==
  /\ rendered /\ cell.isBold /\ cell.isDim /\ cell.isInvisible
  /\ ~cell.isItalic /\ ~cell.isUnderline /\ ~cell.isStrikethrough /\ ~cell.isBlink
  /\ cell.fgColorMode = PALETTE /\ cell.fgColor = 231
  /\ cell.bgColorMode = RGB /\ cell.bgColor = 0
  /\ render.classList = "xterm-bold xterm-dim xterm-invisible"
  /\ render.style = "color: #ffffff; background-color: #000000"

\* s is an initial part of t
IsPrefix(s, t) == Len(s) <= Len(t) /\ s = SubSeq(t, 1, Len(s))

\* C13: two calls given cells whose accessors return the same values return
\* the same classList, style and textContent, whatever calls ran before or
\* between them.
C13_Deterministic ==
  \A i, j \in Inv :
    (st[i] = "returned" /\ st[j] = "returned" /\ args[i] = args[j]) => ret[i] = ret[j]

C13_Witness ==
  /\ st[1] = "returned" /\ st[2] = "returned" /\ st[3] = "returned"
  /\ args[1] = args[3] /\ args[2] # args[1]
  /\ args[1].isBold /\ args[1].throwsAt = 0
  /\ ret[1] = ret[3]
  /\ ret[3].classList = "xterm-bold xterm-dim xterm-invisible"
  /\ ret[2].classList = "xterm-italic xterm-underline xterm-strikethrough xterm-blink"

\* C15: when an accessor throws, the call ends with the value thrown, returns
\* nothing, and has invoked the accessors up to the failing one and none after.
C15_ThrowPropagates ==
  \A i \in Inv :
    LET k == args[i].throwsAt
    IN  /\ (k # 0 /\ Len(log[i]) >= k) =>
             /\ st[i] = "thrown"
             /\ err[i] = args[i].failure
             /\ ret[i] = NoRender
             /\ log[i] = SubSeq(Accessors, 1, k)
        /\ st[i] = "thrown" => (k # 0 /\ Len(log[i]) = k)
        /\ st[i] = "returned" => (k = 0 /\ err[i] = NoError)

C15_Witness ==
  /\ st[1] = "thrown" /\ args[1].throwsAt = 9 /\ args[1].failure = "TypeError: disposed"
  /\ err[1] = "TypeError: disposed"
  /\ Len(log[1]) = 9 /\ log[1][9] = "getFgColor"
  /\ ret[1] = NoRender

\* C16: no step of a call writes a cell or the palette table, and a call
\* starts on empty lists: it reads nothing an earlier call wrote.
C16_ReadOnly ==
  [][ /\ args' = args
      /\ palette' = palette
      /\ palette = colorPalette
      /\ \A i \in Inv :
           (st[i] = "idle" /\ st'[i] = "running") =>
             (classLists'[i] = <<>> /\ styleLists'[i] = <<>>) ]_vars

C16_Witness ==
  /\ \A i \in Inv : st[i] = "returned"
  /\ args[1].chars = "A" /\ args[2].chars = "" /\ args[3].chars = "A"
  /\ ret[1].textContent = "A"
  /\ palette = colorPalette

\* C17: however the steps of the calls interleave, each call returns what
\* the function returns on its cell alone, and its lists never hold an entry
\* that is not one of its own cell.
C17_Interleaving ==
  \A i \in Inv :
    /\ st[i] = "returned" =>
         /\ ret[i].classList = prepareCellForDomRenderer(args[i]).classList
         /\ ret[i].style = prepareCellForDomRenderer(args[i]).style
         /\ ret[i].textContent = prepareCellForDomRenderer(args[i]).textContent
    /\ st[i] # "idle" =>
         /\ IsPrefix(classLists[i], classTokens(args[i]))
         /\ IsPrefix(styleLists[i], styleDecls(args[i]))

C17_Witness ==
  /\ st[1] = "running" /\ pc[1] = 4 /\ st[2] = "running" /\ pc[2] = 6
  /\ st[3] = "returned"
  /\ args[1].isBold /\ args[2].isItalic /\ args[3].isBold
  /\ classLists[1] = <<"xterm-bold", "xterm-dim">>
  /\ classLists[2] = <<"xterm-italic", "xterm-underline", "xterm-strikethrough">>
  /\ ret[3].style = "color: #cd0000; background-color: #ff8000"

\* C18: a call on a cell whose accessors all return ends after its twelve
\* steps, having invoked the twelve accessors once each in their order, the
\* colour values also when the mode is DEFAULT; until then a step is enabled
\* (shown on call 1, which is given every cell: the calls run the same code).
C18_AccessorOrder ==
  /\ \A i \in Inv :
       /\ IsPrefix(log[i], Accessors)
       /\ st[i] = "returned" => (log[i] = Accessors /\ pc[i] = 13)
       /\ st[i] = "running" => (pc[i] \in 1..12 /\ Len(log[i]) = pc[i] - 1)
  /\ (st[1] = "running" /\ args[1].throwsAt = 0) => ENABLED Step(1)

C18_Witness ==
  /\ st[2] = "returned" /\ args[2].fgColorMode = DEFAULT /\ args[2].bgColorMode = PALETTE
  /\ log[2] = Accessors
  /\ ret[2].style = "background-color: #102102102"

\* C20: getIpcRenderer returns a TauriIpcRenderer whenever Tauri is detected
\* (Electron detected or not), Electron's ipcRenderer when only Electron is,
\* either with send and invoke; with neither it returns nothing and throws
\* an Error saying 'Neither Tauri nor Electron runtime detected'.
C20_GetIpcRenderer ==
  ipcCalled =>
    LET tauri == windowDefined /\ tauriGlobal
        electron == windowDefined /\ electronGlobal
    IN  /\ tauri =>
             /\ ipcRet.kind = "TauriIpcRenderer"
             /\ ipcRet.id \in 1..Len(renderers)
             /\ ipcErr = ""
        /\ (~tauri /\ electron) =>
             /\ ipcRet.kind = "electron.ipcRenderer"
             /\ ipcErr = ""
             /\ renderers = <<>>
        /\ (~tauri /\ ~electron) =>
             /\ ipcRet = NoRenderer
             /\ ipcErr = "Neither Tauri nor Electron runtime detected"
             /\ renderers = <<>>
        /\ ipcErr = "" => {"send", "invoke"} \subseteq ipcRet.methods

C20_Witness ==
  /\ ipcCalled /\ windowDefined /\ tauriGlobal /\ electronGlobal
  /\ ipcRet.kind = "TauriIpcRenderer" /\ ipcRet.id = 2 /\ ipcErr = ""

\* the cube coordinates a colour string stands for
DecodeCube(s) ==
  {rgb \in (0 .. 5) \X (0 .. 5) \X (0 .. 5) :
     s = "#" \o TwoHex(CubeLevel(rgb[1])) \o TwoHex(CubeLevel(rgb[2])) \o TwoHex(CubeLevel(rgb[3]))}

\* C30: the extended palette is injective: no other palette value of
\* 16..255 resolves to the colour string of this one (cube against cube,
\* gray against gray, gray against cube), and the string of a cube entry
\* decodes to exactly one (r, g, b), with 16 + 36*r + 6*g + b its index.
C30_Injective ==
  (gcDone /\ gcMode = PALETTE /\ gcColor \in 16 .. 255) =>
    /\ \A w \in 16 .. 255 : w # gcColor => getColor(PALETTE, w) # gcRet
    /\ gcColor < 232 =>
         /\ Cardinality(DecodeCube(gcRet)) = 1
         /\ \A rgb \in DecodeCube(gcRet) : 16 + 36 * rgb[1] + 6 * rgb[2] + rgb[3] = gcColor
    /\ gcColor >= 232 => DecodeCube(gcRet) = {}

C30_Witness == gcDone /\ gcMode = PALETTE /\ gcColor = 145 /\ gcRet = "#afafaf"

\* C21: the runtime queries agree: getRuntimeName() is 'Tauri' iff
\* isTauriRuntime() is true, 'Electron' iff isElectronRuntime() is true and
\* isTauriRuntime() false, 'Unknown' otherwise; getIpcRenderer() throws
\* exactly when the name is 'Unknown'; and each of the four answers what it
\* answered at its first call, whatever the page's globals have become.
C21_RuntimeQueries ==
  LET a(f) == f \in asked
  IN  /\ a("getRuntimeName") => rtName \in {"Tauri", "Electron", "Unknown"}
      /\ (a("getRuntimeName") /\ a("isTauriRuntime")) => (rtName = "Tauri" <=> rtTauri)
      /\ (a("getRuntimeName") /\ a("isTauriRuntime") /\ a("isElectronRuntime")) =>
            /\ rtName = "Electron" <=> (rtElectron /\ ~rtTauri)
            /\ rtName = "Unknown" <=> (~rtElectron /\ ~rtTauri)
      /\ (a("getRuntimeName") /\ a("getIpcRenderer")) =>
            /\ ipcCalled
            /\ ipcErr # "" <=> rtName = "Unknown"
            /\ ipcErr = "" <=> ipcRet # NoRenderer
      /\ a("isTauriRuntime") => rtTauri = first.tauri
      /\ a("isElectronRuntime") => rtElectron = first.electron
      /\ a("getRuntimeName") => rtName = first.name
      /\ a("getIpcRenderer") => IpcAnswer(ipcRet, ipcErr) = first.ipc

\* Electron was detected at the load, window.__TAURI__ appeared afterwards,
\* and all four functions have been called
C21_Witness ==
  /\ asked = {"isTauriRuntime", "isElectronRuntime", "getRuntimeName", "getIpcRenderer"}
  /\ tauriGlobal /\ ~isTauri /\ isElectron
  /\ rtName = "Electron" /\ ~rtTauri /\ rtElectron
  /\ ipcRet.kind = "electron.ipcRenderer"

\* the page's listeners registered as themselves on channel ch of renderer r
PlainFns(r, ch) ==
  {renderers[r][ch].fns[k].fn :
     k \in {i \in 1 .. Len(renderers[r][ch].fns) : renderers[r][ch].fns[i].wrap = 0}}

\* the listeners registered on ch of r with on and not removed since
Registered(r, ch) == {l \in Listeners : onCalls[r][ch][l] > 0}

\* the invocations of listener l as itself that the last emit made directly
DirectCalls(l) ==
  {k \in 1 .. Len(trace) : trace[k].fn = l /\ trace[k].wrap = 0 /\ trace[k].depth = 0}

\* this step is a call of method op
IsCall(op) == lastOp'.op = op /\ opsLeft' = opsLeft - 1

\* C22 (as claimed): a listener registered with once(ch, l) is invoked at
\* most once over the later emits, also when l throws or emits re-entrantly,
\* and after its first invocation it is no longer registered on ch.
C22_OnceAtMostOnce ==
  \A w \in DOMAIN wrappers :
    /\ wrappers[w].calls <= 1
    /\ wrappers[w].calls >= 1 =>
         \A k \in 1 .. Len(renderers[wrappers[w].r][wrappers[w].ch].fns) :
            renderers[wrappers[w].r][wrappers[w].ch].fns[k] # Wrapped(wrappers[w].fn, w)

\* C23: emit(ch, args) invokes exactly the listeners registered on ch with
\* on and not removed since, each with an empty event object followed by
\* args, none that is registered on another channel only; and
\* removeListener(ch, l) changes the registrations of ch only, and nothing
\* when ch has no registrations or l is not registered on ch.
C23_EmitRegistered ==
  /\ [](/\ \A r \in 1 .. Len(renderers), ch \in Channels : PlainFns(r, ch) = Registered(r, ch)
        /\ lastOp.op = "emit" =>
             /\ {trace[k].fn : k \in {i \in 1 .. Len(trace) : trace[i].wrap = 0}}
                  = Registered(lastOp.r, lastOp.ch)
             /\ \A l \in Registered(lastOp.r, lastOp.ch) : Cardinality(DirectCalls(l)) = 1
             /\ \A k \in 1 .. Len(trace) :
                  trace[k].event = "{}" /\ trace[k].args = lastOp.args)
  /\ [][IsCall("removeListener") =>
          /\ \A r \in 1 .. Len(renderers), ch \in Channels :
               (r # lastOp'.r \/ ch # lastOp'.ch) => renderers'[r][ch] = renderers[r][ch]
          /\ (\/ ~renderers[lastOp'.r][lastOp'.ch].has
              \/ lastOp'.l \notin PlainFns(lastOp'.r, lastOp'.ch)) => renderers' = renderers]_vars

\* on(ch2, l2), on(ch1, l1), then emit(ch1, 'pty-data') invokes l1 alone
C23_Witness ==
  /\ lastOp.op = "emit" /\ lastOp.ch = "/exec/invoke" /\ lastOp.args = <<"pty-data">>
  /\ Registered(1, "/exec/invoke") = {"l1"}
  /\ Registered(1, "synchronous-message") = {"l2"}
  /\ behaviour["l1"] = "returns"
  /\ Len(trace) = 1 /\ trace[1].fn = "l1" /\ trace[1].args = <<"pty-data">>

\* C24: emit never throws and skips no listener because another failed:
\* every function registered on ch when emit is called is invoked in that
\* emit, and the registrations made with on are what they were before it.
C24_EmitNeverThrows ==
  [][IsCall("emit") =>
       /\ ~emitThrew'
       /\ \A k \in 1 .. Len(renderers[lastOp'.r][lastOp'.ch].fns) :
            \E i \in 1 .. Len(trace') :
              /\ trace'[i].fn = renderers[lastOp'.r][lastOp'.ch].fns[k].fn
              /\ trace'[i].wrap = renderers[lastOp'.r][lastOp'.ch].fns[k].wrap
       /\ \A r \in 1 .. Len(renderers), ch \in Channels :
            /\ SelectSeq(renderers'[r][ch].fns, LAMBDA f : f.wrap = 0)
                 = SelectSeq(renderers[r][ch].fns, LAMBDA f : f.wrap = 0)
            /\ renderers'[r][ch].has = renderers[r][ch].has]_vars

\* l2, which throws, was registered before l1: the emit invoked both
C24_Witness ==
  /\ lastOp.op = "emit" /\ ~emitThrew
  /\ behaviour["l2"] = "throws"
  /\ Len(trace) = 2 /\ trace[1].fn = "l2" /\ trace[2].fn = "l1"
  /\ PlainFns(1, lastOp.ch) = {"l1", "l2"}

\* C27 (as claimed): removeListener(ch, l) cancels a registration made by
\* once(ch, l): no emit after it invokes l through that registration.
C27_RemoveCancelsOnce ==
  lastOp.op = "emit" =>
    \A k \in 1 .. Len(trace) : trace[k].wrap > 0 => ~wrappers[trace[k].wrap].cancelled

\* C28: on is idempotent per (channel, listener): however many times
\* on(ch, l) was called, l is registered once, each emit(ch) invokes it
\* once, and one removeListener(ch, l) leaves it unregistered.
C28_OnIdempotent ==
  /\ \A r \in 1 .. Len(renderers), ch \in Channels :
       \A i, j \in 1 .. Len(renderers[r][ch].fns) :
         i # j => renderers[r][ch].fns[i] # renderers[r][ch].fns[j]
  /\ lastOp.op = "on" =>
       Cardinality({k \in 1 .. Len(renderers[lastOp.r][lastOp.ch].fns) :
                      renderers[lastOp.r][lastOp.ch].fns[k] = Fn(lastOp.l)}) = 1
  /\ lastOp.op = "removeListener" => lastOp.l \notin PlainFns(lastOp.r, lastOp.ch)
  /\ lastOp.op = "emit" =>
       \A l \in Listeners :
         Cardinality(DirectCalls(l)) = IF onCalls[lastOp.r][lastOp.ch][l] >= 1 THEN 1 ELSE 0

\* on(ch, l1) twice, then emit(ch): one invocation
C28_Witness ==
  /\ lastOp.op = "emit"
  /\ onCalls[1][lastOp.ch]["l1"] = 2
  /\ behaviour["l1"] = "returns"
  /\ Len(trace) = 1 /\ trace[1].fn = "l1" /\ trace[1].wrap = 0

\* C29: in the Tauri runtime every getIpcRenderer() returns a new
\* TauriIpcRenderer whose registry is empty; a listener registered with on
\* or once through one renderer is never invoked by emit on another, and
\* removeListener through one removes no registration made through another.
C29_RendererIsolation ==
  /\ lastOp.op = "getIpcRenderer" =>
       /\ ipcRet = TauriRenderer(lastOp.r)
       /\ Len(renderers) = lastOp.r
       /\ renderers[lastOp.r] = NewListeners
  /\ \A r \in 1 .. Len(renderers), ch \in Channels :
       /\ PlainFns(r, ch) = Registered(r, ch)
       /\ \A k \in 1 .. Len(renderers[r][ch].fns) :
            LET f == renderers[r][ch].fns[k]
            IN  f.wrap > 0 => (wrappers[f.wrap].r = r /\ wrappers[f.wrap].ch = ch)
       /\ \A w \in DOMAIN wrappers :
            (wrappers[w].r = r /\ wrappers[w].ch = ch /\ wrappers[w].calls = 0) =>
              \E k \in 1 .. Len(renderers[r][ch].fns) :
                renderers[r][ch].fns[k] = Wrapped(wrappers[w].fn, w)
  /\ lastOp.op = "emit" =>
       \A k \in 1 .. Len(trace) :
         IF trace[k].wrap = 0 THEN trace[k].fn \in Registered(lastOp.r, lastOp.ch)
         ELSE wrappers[trace[k].wrap].r = lastOp.r

\* l1 is registered with on through the first renderer and with once
\* through the second; emit on the second invokes the second's alone
C29_Witness ==
  /\ Len(renderers) = 2
  /\ lastOp.op = "emit" /\ lastOp.r = 2
  /\ Registered(1, lastOp.ch) = {"l1"}
  /\ Len(wrappers) = 1 /\ wrappers[1].r = 2
  /\ Len(trace) >= 1 /\ \A k \in 1 .. Len(trace) : trace[k].wrap = 1

\* the first of the ...args of the last call
FirstArg == IF lastOp.args = <<>> THEN JsUndefined ELSE lastOp.args[1]

JsonText(m) ==
  CASE m.t = "number" /\ m.n = 42 -> "42"
    [] m.t = "number" /\ m.n = 7 -> "7"
    [] m.t = "array" -> "[\"ls\",\"-l\"]"
    [] m.t = "null" -> "null"

====
